---- MODULE Spec2Model ----
(***************************************************************************)
(* A model of cpap_extraction.py: the delimiter framing of read_packet and *)
(* the packet loop of __main__, the schema decoding of extract_packet and  *)
(* the timestamp conversion of convert_unix_time.                          *)
(*                                                                         *)
(* Bytes are the integers 0..255, a bytes / bytearray value is a sequence  *)
(* of them.  A Python int is unbounded, so a decoded scalar is kept as a   *)
(* sign and a big-endian base-256 magnitude (see PyInt below).             *)
(***************************************************************************)
EXTENDS Integers, Sequences, FiniteSets, TLC

VARIABLES
    data_file,   \* the open binary stream: [buf, pos]
    delimeter,   \* read_packet's delimeter argument: [kind, val]
    entry,       \* the cursor of data_file when read_packet was entered
    packet,      \* read_packet's local packet, then the value it returned
    packets,     \* __main__'s list of collected packets
    fields,      \* extract_packet's schema: a sequence of <<name, C_Type>>
    ex_packet,   \* extract_packet's packet argument, consumed in place
    ex_given,    \* the bytes of that packet when extract_packet was entered
    data,        \* extract_packet's list of extracted lines
    unixtime,    \* convert_unix_time's argument: [kind, val, text]
    result,      \* the string convert_unix_time returned
    handle,      \* the file object of open_file: "unopened", "open" or "closed"
    environment, \* what os.path says: [source_is_file, destination_is_dir]
    calls,       \* the functions __main__ has called so far, in order
    written,     \* the File argument write_file wrote out, <<>> before that
    stage,       \* the statement of __main__ the program is at
    raised,      \* the exception that escaped, "none" when there is none
    warned,      \* the warnings emitted through warnings.warn
    pc           \* position of the program

framing == <<data_file, delimeter, entry, packet, packets>>

decoding == <<fields, ex_packet, ex_given, data>>

timing == <<unixtime, result>>

pipeline == <<handle, environment, calls, written, stage>>

vars == <<framing, decoding, timing, pipeline, raised, warned, pc>>

(***************************************************************************)
(* Bounds of the model.                                                    *)
(***************************************************************************)
MaxStream == 6

\* The byte values the streams are built from: the delimiter's 0xFF and
\* one ordinary data byte.
StreamBytes == {1, 255}

RECURSIVE SeqsUpTo(_, _)
SeqsUpTo(S, n) ==
    IF n = 0 THEN {<<>>}
    ELSE LET shorter == SeqsUpTo(S, n - 1)
         IN  shorter \cup {Append(s, x) : s \in {t \in shorter : Len(t) = n - 1}, x \in S}

Min(a, b) == IF a < b THEN a ELSE b

(***************************************************************************)
(* The stream: io.BytesIO / a file opened 'rb'.                            *)
(***************************************************************************)
\* data_file.read(n): at most n bytes from the cursor, fewer at end of stream.
read(f, n) == SubSeq(f.buf, f.pos + 1, Min(f.pos + n, Len(f.buf)))

\* a read that leaves the cursor where it was
after_peek(f, n) == f

\* the stream after data_file.read(n)
after_read(f, n) == [f EXCEPT !.pos = Min(f.pos + n, Len(f.buf))]

\* data_file.seek(off, 1): move the cursor relative to its position
seek_cur(f, off) == [f EXCEPT !.pos = f.pos + off]

(***************************************************************************)
(* The delimeter argument.  kind is the Python type of the value: bytes,   *)
(* str (val holds the code points), list (of ints) or none.                *)
(***************************************************************************)
packet_delimeter == [kind |-> "bytes", val |-> <<255, 255, 255, 255>>]

BytesDelimeters ==
    { [kind |-> "bytes", val |-> v] :
        v \in {<<255>>, <<255, 255>>, <<255, 1>>, <<255, 255, 255, 255>>} }

OtherDelimeters ==
    { [kind |-> "bytes", val |-> <<>>],
      [kind |-> "str",   val |-> <<116, 101, 115, 116>>],
      [kind |-> "list",  val |-> <<255, 255>>],
      [kind |-> "none",  val |-> <<>>] }

\* What evaluating delimeter[0].to_bytes(1, 'little') does: "ok", or the
\* exception it raises.  None is not subscriptable, b''[0] is out of range,
\* a str element has no to_bytes.
delimeter_head(d) ==
    IF d.kind = "none" THEN "TypeError"
    ELSE IF Len(d.val) = 0 THEN "IndexError"
    ELSE IF d.kind = "str" THEN "AttributeError"
    ELSE "ok"

\* data_file.read(len(delimeter)) == delimeter: bytes equal only bytes
equals_delimeter(chunk, d) == d.kind = "bytes" /\ chunk = d.val

(***************************************************************************)
(* read_packet, one action per outcome of an iteration of its while loop.  *)
(***************************************************************************)
byte == read(data_file, 1)

\* line 414 raises: the byte of line 413 has been read already
RP_Raise ==
    /\ pc = "read_packet"
    /\ delimeter_head(delimeter) # "ok"
    /\ data_file' = after_read(data_file, 1)
    /\ raised' = delimeter_head(delimeter)
    /\ pc' = "raised"
    /\ UNCHANGED <<delimeter, entry, packet, packets, warned, decoding, timing, pipeline>>

\* line 414 true, line 416 true: the delimeter was read, break and return
RP_Delimeter ==
    /\ pc = "read_packet"
    /\ delimeter_head(delimeter) = "ok"
    /\ byte = <<delimeter.val[1]>>
    /\ LET f1 == seek_cur(after_read(data_file, 1), -1)
       IN  /\ equals_delimeter(read(f1, Len(delimeter.val)), delimeter)
           /\ data_file' = after_read(f1, Len(delimeter.val))
    /\ pc' = "returned"
    /\ UNCHANGED <<delimeter, entry, packet, packets, raised, warned, decoding, timing, pipeline>>

\* line 414 true, line 416 false: len(delimeter) bytes were read, the first
\* one is appended to packet
RP_FirstByteOnly ==
    /\ pc = "read_packet"
    /\ delimeter_head(delimeter) = "ok"
    /\ byte = <<delimeter.val[1]>>
    /\ LET f1 == seek_cur(after_read(data_file, 1), -1)
       IN  /\ ~equals_delimeter(read(f1, Len(delimeter.val)), delimeter)
           /\ data_file' = after_read(f1, Len(delimeter.val))
    /\ packet' = packet \o byte
    /\ UNCHANGED <<delimeter, entry, packets, raised, warned, pc, decoding, timing, pipeline>>

\* line 418: end of stream, break and return
RP_EndOfStream ==
    /\ pc = "read_packet"
    /\ delimeter_head(delimeter) = "ok"
    /\ byte = <<>>
    /\ data_file' = after_read(data_file, 1)
    /\ pc' = "returned"
    /\ UNCHANGED <<delimeter, entry, packet, packets, raised, warned, decoding, timing, pipeline>>

\* line 421: an ordinary byte
RP_Data ==
    /\ pc = "read_packet"
    /\ delimeter_head(delimeter) = "ok"
    /\ byte # <<>>
    /\ byte # <<delimeter.val[1]>>
    /\ data_file' = after_read(data_file, 1)
    /\ packet' = packet \o byte
    /\ UNCHANGED <<delimeter, entry, packets, raised, warned, pc, decoding, timing, pipeline>>

(***************************************************************************)
(* The packet loop of __main__ (lines 613-618).                            *)
(***************************************************************************)
\* the call c added to the log of calls; a call repeated in a loop is logged once
logged(c) == IF calls # <<>> /\ calls[Len(calls)] = c THEN calls ELSE Append(calls, c)

MainCall ==
    /\ pc = "main"
    /\ packet' = <<>>
    /\ entry' = data_file.pos
    /\ calls' = logged("read_packet")
    /\ pc' = "read_packet"
    /\ UNCHANGED <<data_file, delimeter, packets, raised, warned, decoding, timing,
                   handle, environment, written, stage>>

MainBreak ==
    /\ pc = "returned"
    /\ packet = <<>>
    /\ pc' = "done"
    /\ UNCHANGED <<data_file, delimeter, entry, packet, packets, raised, warned, decoding, timing, pipeline>>

MainAppend ==
    /\ pc = "returned"
    /\ packet # <<>>
    /\ packets' = Append(packets, packet)
    /\ pc' = "main"
    /\ UNCHANGED <<data_file, delimeter, entry, packet, raised, warned, decoding, timing, pipeline>>

\* the variables of the parts a specification does not run
NoFraming ==
    /\ data_file = [buf |-> <<>>, pos |-> 0]
    /\ delimeter = packet_delimeter
    /\ entry = 0
    /\ packet = <<>>
    /\ packets = <<>>

NoDecoding ==
    /\ fields = <<>>
    /\ ex_packet = <<>>
    /\ ex_given = <<>>
    /\ data = <<>>

NoTiming ==
    /\ unixtime = [kind |-> "int", val |-> [neg |-> FALSE, mag |-> <<>>], text |-> ""]
    /\ result = ""

\* a function called on its own, outside __main__: an open stream, no pipeline
NoPipeline ==
    /\ handle = "open"
    /\ environment = [source_is_file |-> TRUE, destination_is_dir |-> TRUE]
    /\ calls = <<>>
    /\ written = <<>>
    /\ stage = "none"

(***************************************************************************)
(* SpecReadPacket: one call of read_packet, as the unit tests make it, on  *)
(* any stream, cursor and delimeter.                                       *)
(***************************************************************************)
InitReadPacket ==
    /\ \E b \in SeqsUpTo(StreamBytes, MaxStream), p \in 0..MaxStream :
          /\ p <= Len(b)
          /\ data_file = [buf |-> b, pos |-> p]
          /\ entry = p
    /\ delimeter \in BytesDelimeters \cup OtherDelimeters
    /\ packet = <<>>
    /\ packets = <<>>
    /\ NoDecoding
    /\ NoTiming
    /\ NoPipeline
    /\ raised = "none"
    /\ warned = {}
    /\ pc = "read_packet"

NextReadPacket ==
    \/ RP_Raise
    \/ RP_Delimeter
    \/ RP_FirstByteOnly
    \/ RP_EndOfStream
    \/ RP_Data

SpecReadPacket == InitReadPacket /\ [][NextReadPacket]_vars

(***************************************************************************)
(* SpecFraming: the packet loop over a whole stream, with a bytes          *)
(* delimeter of one byte or more.                                          *)
(***************************************************************************)
InitFraming ==
    /\ \E b \in SeqsUpTo(StreamBytes, MaxStream) :
          data_file = [buf |-> b, pos |-> 0]
    /\ delimeter \in BytesDelimeters
    /\ entry = 0
    /\ packet = <<>>
    /\ packets = <<>>
    /\ NoDecoding
    /\ NoTiming
    /\ NoPipeline
    /\ raised = "none"
    /\ warned = {}
    /\ pc = "main"

NextFraming ==
    \/ MainCall
    \/ RP_Delimeter
    \/ RP_FirstByteOnly
    \/ RP_EndOfStream
    \/ RP_Data
    \/ MainBreak
    \/ MainAppend

SpecFraming == InitFraming /\ [][NextFraming]_vars

(***************************************************************************)
(* Python ints.  A PyInt is [neg, mag]: mag is the magnitude as big-endian *)
(* base-256 digits without leading zero digits; zero is [FALSE, <<>>].     *)
(***************************************************************************)
RECURSIVE Reverse(_)
Reverse(s) == IF s = <<>> THEN <<>> ELSE Append(Reverse(Tail(s)), Head(s))

RECURSIVE StripZeros(_)
StripZeros(s) == IF s # <<>> /\ Head(s) = 0 THEN StripZeros(Tail(s)) ELSE s

PyInt(neg, digits) ==
    LET m == StripZeros(digits) IN [neg |-> neg /\ m # <<>>, mag |-> m]

\* the remainder of the big-endian number s divided by d (0 < d < 2^23)
RECURSIVE Remainder(_, _)
Remainder(s, d) ==
    IF s = <<>> THEN 0
    ELSE (Remainder(SubSeq(s, 1, Len(s) - 1), d) * 256 + s[Len(s)]) % d

\* its quotient, by long division
Quotient(s, d) ==
    StripZeros([i \in 1..Len(s) |-> (Remainder(SubSeq(s, 1, i - 1), d) * 256 + s[i]) \div d])

\* the big-endian number s plus one
RECURSIVE PlusOne(_)
PlusOne(s) ==
    IF s = <<>> THEN <<1>>
    ELSE IF s[Len(s)] < 255 THEN [s EXCEPT ![Len(s)] = @ + 1]
    ELSE Append(PlusOne(SubSeq(s, 1, Len(s) - 1)), 0)

DigitChar == <<"0", "1", "2", "3", "4", "5", "6", "7", "8", "9">>

\* the decimal digits of a magnitude, "" for zero
RECURSIVE Decimal(_)
Decimal(m) ==
    IF m = <<>> THEN ""
    ELSE Decimal(Quotient(m, 10)) \o DigitChar[Remainder(m, 10) + 1]

\* str(n) of a Python int
str_int(n) ==
    IF n.mag = <<>> THEN "0"
    ELSE (IF n.neg THEN "-" ELSE "") \o Decimal(n.mag)

(***************************************************************************)
(* extract_packet.                                                         *)
(***************************************************************************)
\* the table C_Types: the number of bytes of each struct format character
C_Types ==
    [c |-> 1, b |-> 1, B |-> 1, h |-> 2, H |-> 2, i |-> 4, I |-> 4,
     l |-> 4, L |-> 4, q |-> 8, Q |-> 8, f |-> 4, d |-> 8]

\* the format characters of struct's signed integers; B, H, I, L and Q are
\* the unsigned ones
SignedTypes == {"b", "h", "i", "l", "q"}

\* a decoder that takes a short buffer, as int.from_bytes does
unpack_short_buffer(C_Type, buffer) ==
    IF Len(buffer) > C_Types[C_Type] \/ buffer = <<>>
    THEN [ok |-> FALSE, error |-> "struct.error", value |-> <<>>]
    ELSE [ok |-> TRUE, error |-> "none", value |-> <<PyInt(FALSE, Reverse(buffer))>>]

\* struct.unpack('<' + C_Type, buffer) for an integer format: struct.error
\* unless the buffer has exactly the format's size, else the 1-tuple of the
\* little-endian (two's complement when signed) value
unpack(C_Type, buffer) ==
    IF Len(buffer) # C_Types[C_Type]
    THEN [ok |-> FALSE, error |-> "struct.error", value |-> <<>>]
    ELSE LET be == Reverse(buffer)
             v  == IF C_Type \in SignedTypes /\ be[1] >= 128
                   THEN PyInt(TRUE, PlusOne([k \in 1..Len(be) |-> 255 - be[k]]))
                   ELSE PyInt(FALSE, be)
         IN  [ok |-> TRUE, error |-> "none", value |-> <<v>>]

\* str(t) of a tuple of ints: '(42,)' for one item
RECURSIVE str_items(_)
str_items(t) ==
    IF Len(t) = 1 THEN str_int(t[1])
    ELSE str_int(t[1]) \o ", " \o str_items(Tail(t))

str_tuple(t) ==
    IF Len(t) = 0 THEN "()"
    ELSE IF Len(t) = 1 THEN "(" \o str_int(t[1]) \o ",)"
    ELSE "(" \o str_items(t) \o ")"

\* '{}: {}\n'.format(field, extracted_line), extracted_line being the tuple
\* struct.unpack returned
extracted_entry(field, extracted_line) == field \o ": " \o str_tuple(extracted_line) \o "\n"

\* the schema entry the for loop is at
field == fields[Len(data) + 1]

number_of_bytes == C_Types[field[2]]

\* packet[:number_of_bytes]
bytes_to_be_extracted == SubSeq(ex_packet, 1, Min(number_of_bytes, Len(ex_packet)))

\* the del statement left out
packet_not_deleted == ex_packet

\* the packet after del packet[:number_of_bytes]
packet_after_del == SubSeq(ex_packet, Len(bytes_to_be_extracted) + 1, Len(ex_packet))

\* lines 487-497, an iteration that appends an entry
EX_Field ==
    /\ pc = "extract_packet"
    /\ Len(data) < Len(fields)
    /\ unpack(field[2], bytes_to_be_extracted).ok
    /\ ex_packet' = packet_after_del
    /\ data' = Append(data, extracted_entry(field[1],
                                unpack(field[2], bytes_to_be_extracted).value))
    /\ UNCHANGED <<fields, ex_given, raised, warned, pc, framing, timing, pipeline>>

\* lines 487-496, an iteration in which struct.unpack raises
EX_Error ==
    /\ pc = "extract_packet"
    /\ Len(data) < Len(fields)
    /\ ~unpack(field[2], bytes_to_be_extracted).ok
    /\ ex_packet' = packet_after_del
    /\ raised' = unpack(field[2], bytes_to_be_extracted).error
    /\ pc' = "raised"
    /\ UNCHANGED <<fields, ex_given, data, warned, framing, timing, pipeline>>

\* line 499
EX_Return ==
    /\ pc = "extract_packet"
    /\ Len(data) = Len(fields)
    /\ pc' = "returned"
    /\ UNCHANGED <<decoding, raised, warned, framing, timing, pipeline>>

(***************************************************************************)
(* SpecDecode: one call of extract_packet on any packet and schema.        *)
(***************************************************************************)
MaxPacket == 5

MaxFields == 2

PacketBytes == {0, 42, 255}

FieldNames == {"Machine ID", "Session ID", "Data size"}

SchemaTypes == {"B", "h", "I"}

\* a schema is a dict: its names are distinct, its order the insertion order
Schemas ==
    { s \in SeqsUpTo(FieldNames \X SchemaTypes, MaxFields) :
        /\ s # <<>>
        /\ \A i, j \in 1..Len(s) : i # j => s[i][1] # s[j][1] }

InitDecode ==
    /\ fields \in Schemas
    /\ ex_packet \in SeqsUpTo(PacketBytes, MaxPacket)
    /\ ex_given = ex_packet
    /\ data = <<>>
    /\ NoFraming
    /\ NoTiming
    /\ NoPipeline
    /\ raised = "none"
    /\ warned = {}
    /\ pc = "extract_packet"

NextDecode ==
    \/ EX_Field
    \/ EX_Error
    \/ EX_Return

SpecDecode == InitDecode /\ [][NextDecode]_vars

(***************************************************************************)
(* convert_unix_time.                                                      *)
(***************************************************************************)
\* the magnitude of a natural number
RECURSIVE FromNat(_)
FromNat(n) == IF n = 0 THEN <<>> ELSE Append(FromNat(n \div 256), n % 256)

\* the natural number of a magnitude of at most three digits
RECURSIVE ToNat(_)
ToNat(m) == IF m = <<>> THEN 0 ELSE ToNat(SubSeq(m, 1, Len(m) - 1)) * 256 + m[Len(m)]

\* a < b, for Python ints
MagLess(a, b) ==
    \/ Len(a) < Len(b)
    \/ /\ Len(a) = Len(b)
       /\ \E i \in 1..Len(a) : a[i] < b[i] /\ \A j \in 1..(i - 1) : a[j] = b[j]

IntLess(a, b) ==
    IF a.neg # b.neg THEN a.neg
    ELSE IF a.neg THEN MagLess(b.mag, a.mag)
    ELSE MagLess(a.mag, b.mag)

IntLeq(a, b) == a = b \/ IntLess(a, b)

\* line 520, int(unixtime / 1000) for an int: the quotient truncated toward
\* zero.  (The division is a float's: exact below 2^53, and a value from
\* there on is far outside the range of datetime whatever its rounding.)
int_div_1000(u) == PyInt(u.neg, Quotient(u.mag, 1000))

\* datetime.utcfromtimestamp(t): the proleptic Gregorian date and the time of
\* day of t seconds from 1970-01-01, ValueError outside the years 1..9999
utcfromtimestamp(t) ==
    LET q   == Quotient(t.mag, 86400)
        r   == Remainder(t.mag, 86400)
        n   == IF Len(q) <= 3 THEN ToNat(q) ELSE 0
        day == IF ~t.neg THEN n ELSE IF r = 0 THEN -n ELSE -n - 1
        sod == IF ~t.neg \/ r = 0 THEN r ELSE 86400 - r
        z   == day + 719468
        era == z \div 146097
        doe == z % 146097
        yoe == (doe - doe \div 1460 + doe \div 36524 - doe \div 146096) \div 365
        doy == doe - (365 * yoe + yoe \div 4 - yoe \div 100)
        mp  == (5 * doy + 2) \div 153
        mon == IF mp < 10 THEN mp + 3 ELSE mp - 9
    IN  IF Len(q) > 3 \/ day < -719162 \/ day > 2932896
        THEN [ok |-> FALSE, error |-> "ValueError"]
        ELSE [ok |-> TRUE, error |-> "none",
              year   |-> yoe + era * 400 + (IF mon <= 2 THEN 1 ELSE 0),
              month  |-> mon,
              day    |-> doy - (153 * mp + 2) \div 5 + 1,
              hour   |-> sod \div 3600,
              minute |-> (sod % 3600) \div 60,
              second |-> sod % 60]

\* %m, %d, %H, %M, %S: two digits
TwoDigits(n) == DigitChar[(n \div 10) + 1] \o DigitChar[(n % 10) + 1]

\* strftime('%Y-%m-%d %H:%M:%S'); the C library's %Y does not pad the year
strftime(dt) ==
    Decimal(FromNat(dt.year)) \o "-" \o TwoDigits(dt.month) \o "-" \o TwoDigits(dt.day)
        \o " " \o TwoDigits(dt.hour) \o ":" \o TwoDigits(dt.minute)
        \o ":" \o TwoDigits(dt.second)

\* the warnings of lines 524-529, for the seconds t
\* the first comparison written as unixtime < 0
warnings_of_strict(t) ==
    (IF IntLess(t, PyInt(FALSE, <<>>)) THEN {"evaluated to 0"} ELSE {})
        \cup (IF IntLeq(PyInt(FALSE, FromNat(2147483647)), t)
              THEN {"beyond the year 2038"} ELSE {})

warnings_of(t) ==
    (IF IntLeq(t, PyInt(FALSE, <<>>)) THEN {"evaluated to 0"} ELSE {})
        \cup (IF IntLeq(PyInt(FALSE, FromNat(2147483647)), t)
              THEN {"beyond the year 2038"} ELSE {})

\* the message built without the argument
error_without_argument(u) == "ERROR: unixtime is invalid"

\* line 522: 'ERROR: {} is invalid'.format(unixtime), u.text being str(unixtime)
error_string(u) == "ERROR: " \o u.text \o " is invalid"

\* lines 521-522: unixtime / 1000 raised TypeError
CU_Invalid ==
    /\ pc = "convert_unix_time"
    /\ unixtime.kind # "int"
    /\ result' = error_string(unixtime)
    /\ pc' = "returned"
    /\ UNCHANGED <<unixtime, raised, warned, framing, decoding, pipeline>>

\* lines 520-531, the date is formatted and returned
CU_Format ==
    /\ pc = "convert_unix_time"
    /\ unixtime.kind = "int"
    /\ LET t == int_div_1000(unixtime.val)
       IN  /\ utcfromtimestamp(t).ok
           /\ warned' = warned \cup warnings_of(t)
           /\ result' = strftime(utcfromtimestamp(t))
    /\ pc' = "returned"
    /\ UNCHANGED <<unixtime, raised, framing, decoding, pipeline>>

\* lines 520-531, utcfromtimestamp raises after the warnings
CU_Raise ==
    /\ pc = "convert_unix_time"
    /\ unixtime.kind = "int"
    /\ LET t == int_div_1000(unixtime.val)
       IN  /\ ~utcfromtimestamp(t).ok
           /\ warned' = warned \cup warnings_of(t)
           /\ raised' = utcfromtimestamp(t).error
    /\ pc' = "raised"
    /\ UNCHANGED <<unixtime, result, framing, decoding, pipeline>>

(***************************************************************************)
(* SpecTime: one call of convert_unix_time.                                *)
(***************************************************************************)
\* m * k + a, for a magnitude m and naturals k, a
RECURSIVE MulAdd(_, _, _)
MulAdd(m, k, a) ==
    IF m = <<>> THEN FromNat(a)
    ELSE LET t == m[Len(m)] * k + a
         IN  Append(MulAdd(SubSeq(m, 1, Len(m) - 1), k, t \div 256), t % 256)

\* the int of thousands * 10^6 + units * 10^3 + ms milliseconds, negated if neg
Millis(neg, thousands, units, ms) ==
    PyInt(neg, MulAdd(MulAdd(FromNat(thousands), 1000, units), 1000, ms))

\* the int of thousands * 10^3 + units seconds
Seconds(neg, thousands, units) == PyInt(neg, MulAdd(FromNat(thousands), 1000, units))

\* seconds to try, as <<thousands, units>>: the epoch, a minute, days, the
\* tests' 842323380, the ends of the 32-bit and of the datetime range
SecondSamples ==
    { <<0, 0>>, <<0, 1>>, <<0, 59>>, <<86, 399>>, <<86, 400>>, <<842323, 380>>,
      <<951782, 400>>, <<2147483, 646>>, <<2147483, 647>>, <<2147483, 648>>,
      <<62135596, 800>>, <<62135596, 801>>, <<253402300, 799>>, <<253402300, 800>> }

MsSamples == {0, 1, 451, 999}

IntInput(v) == [kind |-> "int", val |-> v, text |-> ""]

\* the ends of the signed and unsigned 64-bit fields a timestamp is read from
Int64Samples ==
    { PyInt(FALSE, <<127, 255, 255, 255, 255, 255, 255, 255>>),
      PyInt(TRUE,  <<128, 0, 0, 0, 0, 0, 0, 0>>),
      PyInt(FALSE, <<255, 255, 255, 255, 255, 255, 255, 255>>) }

TimeInputs ==
    { IntInput(Millis(neg, s[1], s[2], ms)) :
        neg \in BOOLEAN, s \in SecondSamples, ms \in MsSamples }
    \cup { IntInput(v) : v \in Int64Samples }
    \cup { [kind |-> "str",  val |-> PyInt(FALSE, <<>>), text |-> "test"],
           [kind |-> "str",  val |-> PyInt(FALSE, <<>>), text |-> "not a number"],
           [kind |-> "none", val |-> PyInt(FALSE, <<>>), text |-> "None"] }

InitTime ==
    /\ unixtime \in TimeInputs
    /\ result = ""
    /\ NoFraming
    /\ NoDecoding
    /\ NoPipeline
    /\ raised = "none"
    /\ warned = {}
    /\ pc = "convert_unix_time"

NextTime ==
    \/ CU_Invalid
    \/ CU_Format
    \/ CU_Raise

SpecTime == InitTime /\ [][NextTime]_vars

(***************************************************************************)
(* Framing: helpers of the properties.                                     *)
(***************************************************************************)
\* d occurs in b, starting at index i (1-based)
OccursAt(d, b, i) == i >= 1 /\ i + Len(d) - 1 <= Len(b) /\ SubSeq(b, i, i + Len(d) - 1) = d

\* the (1-based) indices after position p at which d occurs in b
Occurrences(d, b, p) == {i \in (p + 1)..Len(b) : OccursAt(d, b, i)}

SetMin(S) == CHOOSE x \in S : \A y \in S : x <= y

\* the packets, with d put back between consecutive ones
RECURSIVE Join(_, _)
Join(ps, d) ==
    IF Len(ps) = 0 THEN <<>>
    ELSE IF Len(ps) = 1 THEN ps[1]
    ELSE ps[1] \o d \o Join(Tail(ps), d)

\* the pieces of b between the occurrences of an n-byte delimiter that start
\* at the indices in C, from index from on
RECURSIVE PiecesOf(_, _, _, _)
PiecesOf(b, C, n, from) ==
    IF C = {} THEN <<SubSeq(b, from, Len(b))>>
    ELSE LET c == SetMin(C)
         IN  <<SubSeq(b, from, c - 1)>> \o PiecesOf(b, C \ {c}, n, c + n)

\* the ways to read b as non-empty packets free of d, joined by d
Decompositions(b, d) ==
    { PiecesOf(b, C, Len(d), 1) :
        C \in { X \in SUBSET Occurrences(d, b, 0) :
                  /\ \A i, j \in X : i < j => i + Len(d) <= j
                  /\ LET ps == PiecesOf(b, X, Len(d), 1)
                     IN  \A k \in 1..Len(ps) :
                            ps[k] # <<>> /\ Occurrences(d, ps[k], 0) = {} } }

\* C1: once the packet loop has ended on a stream b+d+c (a stream in which
\* the delimiter d occurs), the collected packets joined with d are the stream:
\* no byte is lost, duplicated or reordered.
C1_RoundTrip ==
    (pc = "done" /\ Occurrences(delimeter.val, data_file.buf, 0) # {})
        => Join(packets, delimeter.val) = data_file.buf

\* C2: once the packet loop has ended on a stream b in which the delimiter
\* does not occur, it collected the one packet b, or no packet when b is
\* empty, and no error was raised.
C2_NoDelimiterOnePacket ==
    (pc = "done" /\ Occurrences(delimeter.val, data_file.buf, 0) = {})
        => /\ raised = "none"
           /\ packets = IF data_file.buf = <<>> THEN <<>> ELSE <<data_file.buf>>

\* C3: when read_packet returns and its bytes delimiter occurs in the stream
\* at or after the cursor it was entered with, the packet is the bytes from
\* that cursor up to the first occurrence and the cursor is just after that
\* occurrence.
C3_PacketUpToFirstDelimiter ==
    (/\ pc = "returned"
     /\ delimeter \in BytesDelimeters
     /\ Occurrences(delimeter.val, data_file.buf, entry) # {})
        => LET k == SetMin(Occurrences(delimeter.val, data_file.buf, entry))
           IN  /\ packet = SubSeq(data_file.buf, entry + 1, k - 1)
               /\ data_file.pos = k - 1 + Len(delimeter.val)

\* C4: once the packet loop has ended on a stream that is n >= 1 non-empty
\* packets free of the delimiter, joined by the delimiter, the collected
\* packets are those n packets in order.
C4_PacketsInOrder ==
    pc = "done"
        => \A ps \in Decompositions(data_file.buf, delimeter.val) : packets = ps

\* C5: read_packet with the delimiter b'' does not fail: it returns the whole
\* rest of the stream as the packet and emits a warning.
C5_EmptyDelimiterWholeStream ==
    (delimeter = [kind |-> "bytes", val |-> <<>>] /\ pc # "read_packet")
        => /\ raised = "none"
           /\ pc = "returned"
           /\ packet = SubSeq(data_file.buf, entry + 1, Len(data_file.buf))
           /\ warned # {}

\* C6: read_packet with a delimiter that is not bytes raises TypeError before
\* it reads: it never returns or goes on, and when it has raised the cursor is
\* where it was on entry.
C6_InvalidDelimiterBeforeReading ==
    delimeter.kind # "bytes"
        => /\ data_file.pos = entry
           /\ pc \in {"read_packet", "raised"}
           /\ pc = "raised" => raised = "TypeError"

(***************************************************************************)
(* Decoding: helpers of the properties.                                    *)
(***************************************************************************)
\* the sum of the widths of the entries of a schema
RECURSIVE SumWidths(_)
SumWidths(fs) == IF fs = <<>> THEN 0 ELSE C_Types[fs[1][2]] + SumWidths(Tail(fs))

\* off_i: the sum of the widths of the entries before entry i
Offset(i) == SumWidths(SubSeq(fields, 1, i - 1))

\* the bytes of the given packet at [off_i, off_i + w_i)
BytesOfEntry(i) == SubSeq(ex_given, Offset(i) + 1, Offset(i) + C_Types[fields[i][2]])

\* C7: on a packet of at least sum(widths) bytes extract_packet returns; it
\* has then removed exactly the first sum(widths) bytes of the packet, the
\* rest being the suffix of the given packet, and data holds len(schema)
\* entries, entry i being the one of schema entry i.
C7_ConsumesSumOfWidths ==
    (pc # "extract_packet" /\ Len(ex_given) >= SumWidths(fields))
        => /\ pc = "returned"
           /\ raised = "none"
           /\ ex_packet = SubSeq(ex_given, SumWidths(fields) + 1, Len(ex_given))
           /\ Len(data) = Len(fields)
           /\ \A i \in 1..Len(fields) :
                 data[i] = extracted_entry(fields[i][1],
                                           unpack(fields[i][2], BytesOfEntry(i)).value)

C7_Witness ==
    /\ pc = "returned"
    /\ Len(fields) = 2
    /\ fields[1][2] # fields[2][2]
    /\ Len(ex_given) > SumWidths(fields)
    /\ ex_packet # <<>>
    /\ Len(data) = 2

\* C8: every entry extract_packet returns pairs the name of schema entry i
\* with the scalar that the bytes at [off_i, off_i + w_i) are as a
\* little-endian number of the declared type: 'name: 42\n'.
C8_EntryPairsNameWithScalar ==
    pc = "returned"
        => \A i \in 1..Len(data) :
              data[i] = fields[i][1] \o ": "
                          \o str_int(unpack(fields[i][2], BytesOfEntry(i)).value[1]) \o "\n"

\* C9: when at some schema entry fewer bytes remain than the entry's width,
\* extract_packet ends by raising struct.error and returns no record; no
\* entry is ever decoded from fewer bytes than its width.
C9_TruncatedPacketFails ==
    /\ (pc # "extract_packet" /\ Len(ex_given) < SumWidths(fields))
          => (pc = "raised" /\ raised = "struct.error")
    /\ SumWidths(SubSeq(fields, 1, Len(data))) <= Len(ex_given)
    /\ Len(data) <= Len(fields)

C9_Witness ==
    /\ pc = "raised"
    /\ raised = "struct.error"
    /\ Len(data) = 1
    /\ Len(ex_given) > C_Types[fields[1][2]]
    /\ Len(ex_given) < SumWidths(fields)

(***************************************************************************)
(* Timestamps: the properties.                                             *)
(***************************************************************************)
\* C10: for every int of raw milliseconds convert_unix_time returns the
\* formatted UTC date-time of raw / 1000 seconds truncated toward zero, so
\* the millisecond remainder does not show in the string; 842323380000 and
\* 842323380451 give '1996-09-10 02:43:00' and -1 gives '1970-01-01 00:00:00'.
C10_FormatsTruncatedSeconds ==
    (unixtime.kind = "int" /\ pc # "convert_unix_time")
        => /\ pc = "returned"
           /\ raised = "none"
           /\ \A neg \in BOOLEAN, s \in SecondSamples, ms \in MsSamples :
                 unixtime.val = Millis(neg, s[1], s[2], ms)
                    => result = strftime(utcfromtimestamp(Seconds(neg, s[1], s[2])))
           /\ unixtime.val = Millis(FALSE, 842323, 380, 0) => result = "1996-09-10 02:43:00"
           /\ unixtime.val = Millis(FALSE, 842323, 380, 451) => result = "1996-09-10 02:43:00"
           /\ unixtime.val = Millis(TRUE, 0, 0, 1) => result = "1970-01-01 00:00:00"

\* the raw value 2147483647000, the first millisecond of second 2^31 - 1
Raw2038 == Millis(FALSE, 2147483, 647, 0)

\* raw <= 0 or raw >= 2147483647000, on the raw millisecond argument
AnomalousRaw(v) == IntLeq(v, PyInt(FALSE, <<>>)) \/ IntLeq(Raw2038, v)

\* C11: for every int raw <= 0 and every int raw >= 2147483647000,
\* convert_unix_time emits a warning and still returns the formatted
\* date-time (0 gives '1970-01-01 00:00:00', 2147483647000 gives
\* '2038-01-19 03:14:07'); the anomaly never aborts the conversion.
C11_AnomalyWarnsAndReturns ==
    (unixtime.kind = "int" /\ pc # "convert_unix_time" /\ AnomalousRaw(unixtime.val))
        => /\ pc = "returned"
           /\ raised = "none"
           /\ warned # {}
           /\ result = strftime(utcfromtimestamp(int_div_1000(unixtime.val)))
           /\ unixtime.val = PyInt(FALSE, <<>>) => result = "1970-01-01 00:00:00"
           /\ unixtime.val = Raw2038 => result = "2038-01-19 03:14:07"

\* C12: convert_unix_time never raises: for every input, the ends of the
\* signed and unsigned 64-bit fields and the non-numeric inputs included, the
\* call ends by returning a string, with no exception escaping.
C12_NeverRaises ==
    pc # "convert_unix_time" => (pc = "returned" /\ raised = "none")

\* C13: for every non-numeric input x convert_unix_time returns exactly
\* 'ERROR: <x> is invalid' built from the original input; no exception
\* escapes, and no date is formatted, so none of the two warnings is given.
C13_NonNumericGivesErrorString ==
    (unixtime.kind # "int" /\ pc # "convert_unix_time")
        => /\ pc = "returned"
           /\ raised = "none"
           /\ warned = {}
           /\ result = "ERROR: " \o unixtime.text \o " is invalid"
           /\ unixtime.text = "test" => result = "ERROR: test is invalid"
           /\ unixtime.text = "None" => result = "ERROR: None is invalid"

C13_Witness ==
    /\ pc = "returned"
    /\ unixtime.kind = "str"
    /\ unixtime.text = "not a number"
    /\ result = "ERROR: not a number is invalid"

\* C19 as stated: convert_unix_time warns only for anomalous raw values: for
\* every int raw in 1 .. 2147483646999, the values 1 .. 999 included, it
\* returns the formatted string without any warning, so a warning is given
\* exactly when raw <= 0 or raw >= 2147483647000.
C19_WarnsOnlyForAnomalousRaw ==
    (unixtime.kind = "int" /\ pc # "convert_unix_time")
        => /\ ~AnomalousRaw(unixtime.val)
                => /\ pc = "returned"
                   /\ raised = "none"
                   /\ result = strftime(utcfromtimestamp(int_div_1000(unixtime.val)))
                   /\ warned = {}
           /\ (warned # {}) <=> AnomalousRaw(unixtime.val)

\* C19, amended: the warning condition is evaluated on the truncated seconds:
\* for every int raw in 1 .. 2147483646999 the conversion returns the
\* formatted string; it does so without a warning for raw in
\* 1000 .. 2147483646999 and with the warning that the time evaluated to 0
\* for raw in 1 .. 999; a warning is given exactly when raw <= 999 or
\* raw >= 2147483647000.
C19_WarnsOnTruncatedSeconds ==
    (unixtime.kind = "int" /\ pc # "convert_unix_time")
        => /\ ~AnomalousRaw(unixtime.val)
                => /\ pc = "returned"
                   /\ raised = "none"
                   /\ result = strftime(utcfromtimestamp(int_div_1000(unixtime.val)))
                   /\ warned = IF IntLeq(unixtime.val, Millis(FALSE, 0, 0, 999))
                               THEN {"evaluated to 0"} ELSE {}
           /\ (warned # {}) <=> \/ IntLeq(unixtime.val, Millis(FALSE, 0, 0, 999))
                                \/ IntLeq(Raw2038, unixtime.val)

C19_Witness ==
    /\ pc = "returned"
    /\ unixtime.kind = "int"
    /\ unixtime.val = Millis(FALSE, 0, 0, 999)
    /\ warned = {"evaluated to 0"}
    /\ result = "1970-01-01 00:00:00"

(***************************************************************************)
(* The packet loop: where it stops, and that it stops.                     *)
(***************************************************************************)
\* C17: the packet loop stops only when read_packet was invoked with the
\* cursor already at end-of-stream: whenever the loop has stopped the cursor
\* is at end-of-stream, so an empty packet in the middle of the stream (a
\* leading delimiter, two consecutive delimiters) does not end the sequence
\* while unread bytes remain.
C17_StopsOnlyAtEndOfStream ==
    pc = "done" => /\ entry = Len(data_file.buf)
                   /\ data_file.pos = Len(data_file.buf)

\* how far a statement of the loop is from the loop's exit
Rank(p) == CASE p = "main" -> 3 [] p = "read_packet" -> 2 [] p = "returned" -> 1
             [] OTHER -> 0

\* what is left to do: bytes to read, packets that may still be appended
Measure ==
    4 * (Len(data_file.buf) - data_file.pos)
        + 4 * (Len(data_file.buf) - Len(packets)) + Rank(pc)

\* C18: packetization terminates on a finite stream with a non-empty bytes
\* delimiter: every iteration of read_packet's loop returns or strictly
\* advances the cursor, every read_packet call of the loop returns an empty
\* packet or has consumed at least one byte, the number of packets is at
\* most the stream length, and every step of the loop lowers a measure that
\* is never negative, so no run of the loop goes on for ever.
C18_PacketizationTerminates ==
    /\ [][(pc = "read_packet" /\ pc' = "read_packet")
              => data_file'.pos > data_file.pos]_vars
    /\ [][(pc = "read_packet" /\ pc' = "returned" /\ packet' # <<>>)
              => data_file'.pos > entry']_vars
    /\ [](Len(packets) <= Len(data_file.buf))
    /\ [](data_file.pos <= Len(data_file.buf))
    /\ [](Measure >= 0)
    /\ [][Measure' < Measure]_vars

C18_Witness ==
    /\ pc = "done"
    /\ Len(delimeter.val) = 2
    /\ Len(packets) = 2
    /\ \E i \in 1..Len(packets[1]) : packets[1][i] = 255
    /\ data_file.pos = Len(data_file.buf)

(***************************************************************************)
(* SpecMain: the program, __main__ (lines 597-629): open_file, the packet  *)
(* loop with packet_delimeter, extract_packet on packets[0] with the       *)
(* header fields, write_file.  data_file.buf is the content of the source  *)
(* file; ex_packet is the object packets[0] from the call on.              *)
(***************************************************************************)
\* lines 620-626
main_fields ==
    << <<"Magic number", "I">>, <<"File version", "H">>, <<"File type data", "H">>,
       <<"Machine ID", "I">>, <<"Session ID", "I">>,
       <<"First start time", "q">>, <<"First end time", "q">> >>

\* source files: a header of 32 bytes whose times are 842323380000 and
\* 842323440000, and one whose end time is -1
HeaderStart == <<1, 2, 3, 4, 1, 0, 2, 0, 42, 0, 0, 0, 7, 0, 0, 0>>

Headers ==
    { HeaderStart \o <<32, 199, 98, 30, 196, 0, 0, 0>> \o <<128, 177, 99, 30, 196, 0, 0, 0>>,
      HeaderStart \o <<32, 199, 98, 30, 196, 0, 0, 0>>
                 \o <<255, 255, 255, 255, 255, 255, 255, 255>> }

\* what follows the header, cut short or not: nothing, more bytes of the
\* packet, the delimeter, the delimeter and a second packet
Tails ==
    { <<>>, <<9, 9>>, packet_delimeter.val, packet_delimeter.val \o <<5, 6>> }

SourceFiles ==
    { SubSeq(h, 1, n) \o t : h \in Headers, n \in 0..32, t \in Tails }

\* lines 365-373, the source is a file: open(source, 'rb')
M_OpenFile ==
    /\ pc = "start"
    /\ environment.source_is_file
    /\ handle' = "open"
    /\ calls' = logged("open_file")
    /\ stage' = "packetize"
    /\ pc' = "main"
    /\ UNCHANGED <<environment, written, raised, warned, framing, decoding, timing>>

\* lines 368-370
M_SourceNotFound ==
    /\ pc = "start"
    /\ ~environment.source_is_file
    /\ calls' = logged("open_file")
    /\ raised' = "FileNotFoundError"
    /\ stage' = "exit"
    /\ pc' = "raised"
    /\ UNCHANGED <<handle, environment, written, warned, framing, decoding, timing>>

\* line 628, packets is empty: packets[0] raises
M_NoPackets ==
    /\ stage = "packetize"
    /\ pc = "done"
    /\ packets = <<>>
    /\ raised' = "IndexError"
    /\ stage' = "exit"
    /\ pc' = "raised"
    /\ UNCHANGED <<handle, environment, calls, written, warned, framing, decoding, timing>>

\* lines 620-628: extract_packet(packets[0], fields) is entered
M_ExtractPacket ==
    /\ stage = "packetize"
    /\ pc = "done"
    /\ packets # <<>>
    /\ fields' = main_fields
    /\ ex_packet' = packets[1]
    /\ ex_given' = packets[1]
    /\ data' = <<>>
    /\ calls' = logged("extract_packet")
    /\ stage' = "decode"
    /\ pc' = "extract_packet"
    /\ UNCHANGED <<handle, environment, written, raised, warned, framing, timing>>

\* line 629 and lines 563-573, the destination is a directory: the lines of
\* data are written to the output file, which the with statement closes
M_WriteFile ==
    /\ stage = "decode"
    /\ pc = "returned"
    /\ environment.destination_is_dir
    /\ written' = data
    /\ calls' = logged("write_file")
    /\ stage' = "exit"
    /\ pc' = "finished"
    /\ UNCHANGED <<handle, environment, raised, warned, framing, decoding, timing>>

\* lines 567-569
M_DestinationNotFound ==
    /\ stage = "decode"
    /\ pc = "returned"
    /\ ~environment.destination_is_dir
    /\ calls' = logged("write_file")
    /\ raised' = "FileNotFoundError"
    /\ stage' = "exit"
    /\ pc' = "raised"
    /\ UNCHANGED <<handle, environment, written, warned, framing, decoding, timing>>

InitMain ==
    /\ \E b \in SourceFiles : data_file = [buf |-> b, pos |-> 0]
    /\ delimeter = packet_delimeter
    /\ entry = 0
    /\ packet = <<>>
    /\ packets = <<>>
    /\ NoDecoding
    /\ NoTiming
    /\ handle = "unopened"
    /\ environment \in [source_is_file : BOOLEAN, destination_is_dir : BOOLEAN]
    /\ calls = <<>>
    /\ written = <<>>
    /\ stage = "start"
    /\ raised = "none"
    /\ warned = {}
    /\ pc = "start"

NextMain ==
    \/ M_OpenFile
    \/ M_SourceNotFound
    \/ (stage = "packetize" /\ MainCall)
    \/ (stage = "packetize" /\ RP_Delimeter)
    \/ (stage = "packetize" /\ RP_FirstByteOnly)
    \/ (stage = "packetize" /\ RP_EndOfStream)
    \/ (stage = "packetize" /\ RP_Data)
    \/ (stage = "packetize" /\ MainAppend)
    \/ (stage = "packetize" /\ MainBreak)
    \/ M_NoPackets
    \/ M_ExtractPacket
    \/ (stage = "decode" /\ EX_Field)
    \/ (stage = "decode" /\ EX_Error)
    \/ (stage = "decode" /\ EX_Return)
    \/ M_WriteFile
    \/ M_DestinationNotFound

SpecMain == InitMain /\ [][NextMain]_vars

\* the program has ended: by the last statement or by an exception
Exited == pc = "finished" \/ pc = "raised"

\* entry i of the record is a timestamp field of the header
IsTimestamp(i) == fields[i][1] \in {"First start time", "First end time"}

\* C14: the steps of the pipeline occur in the order open, packetization,
\* header decode, timestamp normalization, write, and every timestamp field
\* of the decoded header has been passed through convert_unix_time before
\* the record is handed to write_file: what the writer receives for a
\* timestamp field is never the entry of the raw millisecond integer.
C14_TimestampsNormalisedBeforeWrite ==
    pc = "finished"
        => /\ calls = <<"open_file", "read_packet", "extract_packet",
                        "convert_unix_time", "write_file">>
           /\ \A i \in 1..Len(written) :
                 IsTimestamp(i)
                    => written[i] # extracted_entry(fields[i][1],
                                        unpack(fields[i][2], BytesOfEntry(i)).value)

\* C15: the file handle opened by open_file is closed on every exit path of
\* the pipeline: after normal completion and after a failure of
\* packetization, decoding (truncated packet, empty packet list) or
\* writing, no run ends with the handle still open.
C15_HandleClosedOnEveryExit ==
    Exited => handle # "open"

\* C16: when a packet holds more bytes than the schema consumes the decoder
\* reports the leftover: after extract_packet returns with a non-empty
\* remainder in the packet the caller has received an error, a warning or
\* the remainder in what is returned.
C16_LeftoverBytesReported ==
    (pc = "returned" /\ ex_packet # <<>>)
        => \/ raised # "none"
           \/ warned # {}
           \/ Len(data) > Len(fields)

====
